---- MODULE Spec2Model ----
(***************************************************************************)
(* The two-stage agent workflow of effect-lab: generate_code ->            *)
(* evaluate_code, in its plain async form (src/agents/index.ts) and its    *)
(* Effect-based form (src/agents/.tmp/gemini.ts).                          *)
(*                                                                         *)
(* Strings are sequences of text tokens, so that template literals are     *)
(* concatenations (\o).  An optional value (T | undefined) is a sequence   *)
(* of length at most one: None is undefined, Some(x) is x.                 *)
(***************************************************************************)
EXTENDS Integers, Sequences, FiniteSets, TLC

\* One workflow run: the channels (messages, generatedCode, evaluationResult),
\* the graph position pc, the request put into the prompt, the pending model
\* call and the sandbox.  calls counts the stage calls of a caller that drives
\* the compiled graph's nodes again on the state they produced.
VARIABLES variant, pc, outcome, input, messages, generatedCode,
          evaluationResult, llmResult, vm, vmCreated, visited, request, calls

\* Two concurrent app.invoke calls: per-run control state and the channel
\* instances the runs write to.
VARIABLES runs, channels

\* The sequential-execution experiment (src/sequential-execution.ts): the
\* tasks handed to Effect.all and the lines logged so far.
VARIABLES tasks, events

\* The trade workflow (analyze_and_decide -> execute_trade | END): the graph
\* position, the channels of its AgentState, the outcome of the structured
\* model call, the client's paperTrading flag and the calls of placeOrder.
VARIABLES tradePc, tradeMessages, stockSymbol, analysisResult, tradeExecuted,
          alpacaError, analysisCall, paperTrading, orders

\* The queue experiments (part_003: fork a take, offer, join; lab/queue.ts:
\* offer, take): which program runs, the item it offers, the bounded queue,
\* the main fiber and the forked fiber.
VARIABLES forkProgram, forkItem, forkQueue, forkMain, forkFiber

\* The producer/consumer experiment (part_001): the unbounded queue of the
\* QSvc service, the main fiber (which runs producerProgram), the forked
\* consumer fiber, and the messages offered and consumed so far.
VARIABLES prodQueue, prodMain, consumer, offered, consumed

\* buyNVIDIAGetQuoteAndOrder (alpaca/nvidia.ts): where the call is, the
\* client it was given (what each of its three methods will answer), the
\* quantity, the quote and clock obtained, whether the closed-market warning
\* was printed, the orders handed to createOrder and the error caught.
VARIABLES nvPc, nvClient, nvQuantity, nvQuote, nvClock, nvWarned, nvOrders,
          nvError

\* The layer experiments (lab/layer-launch.ts and the server of
\* lab/effect-service-lifecycle.ts): which layer is launched, the process
\* environment, where the launch is, the layers built so far, the console
\* lines and the configuration error of the first layer, if any.
VARIABLES layerProgram, processEnv, layerPc, built, layerLog, layerError

agentVars == <<variant, pc, outcome, input, messages, generatedCode,
               evaluationResult, llmResult, vm, vmCreated, visited, request, calls>>
pairVars == <<runs, channels>>
seqVars == <<tasks, events>>
tradeVars == <<tradePc, tradeMessages, stockSymbol, analysisResult, tradeExecuted,
               alpacaError, analysisCall, paperTrading, orders>>
forkVars == <<forkProgram, forkItem, forkQueue, forkMain, forkFiber>>
prodVars == <<prodQueue, prodMain, consumer, offered, consumed>>
nvVars == <<nvPc, nvClient, nvQuantity, nvQuote, nvClock, nvWarned, nvOrders,
           nvError>>
layerVars == <<layerProgram, processEnv, layerPc, built, layerLog, layerError>>
moreVars == <<forkVars, prodVars, nvVars, layerVars>>
labVars == <<seqVars, tradeVars, moreVars>>
coreVars == <<agentVars, pairVars, seqVars, tradeVars>>

vars == <<variant, pc, outcome, input, messages, generatedCode,
          evaluationResult, llmResult, vm, vmCreated, visited, request, calls,
          runs, channels, tasks, events, tradePc, tradeMessages, stockSymbol,
          analysisResult, tradeExecuted, alpacaError, analysisCall, paperTrading,
          orders, forkProgram, forkItem, forkQueue, forkMain, forkFiber,
          prodQueue, prodMain, consumer, offered, consumed,
          nvPc, nvClient, nvQuantity, nvQuote, nvClock, nvWarned, nvOrders,
          nvError,
          layerProgram, processEnv, layerPc, built, layerLog, layerError>>

\* ---------------------------------------------------------------- bounds
MaxReplyLen == 4
MaxStageCalls == 2
MaxExtractLen == 6
MaxTasks == 3
TickMs == 500
MaxElapsedMs == 1500

\* ------------------------------------------------------------- constants
VMTimeoutMs == 1000
\* Schedule.recurs(10)
Recurs == 10

Last(s) == s[Len(s)]

\* --------------------------------------------------------------- options
None == <<>>
Some(x) == <<x>>

\* ---------------------------------------------------------------- tokens
\* FenceTs is the opening marker: three backquotes, typescript, newline.
\* Fence is three backquotes alone.  Ws is any run of whitespace.
FenceTs == "<fence typescript>"
Fence == "<fence>"
Ws == " "
ExampleCode == "function execute(): number { return 5 + 3; }"
Prose == "Here is the code:"

ReplyAlphabet == {FenceTs, Fence, Ws, ExampleCode, Prose}

RECURSIVE SeqsUpTo(_, _)
SeqsUpTo(S, n) ==
  IF n = 0 THEN {<<>>}
  ELSE LET shorter == SeqsUpTo(S, n - 1)
       IN shorter \cup {Append(s, t) : s \in {u \in shorter : Len(u) = n - 1}, t \in S}

Replies == SeqsUpTo(ReplyAlphabet, MaxReplyLen)

Prompts == {<<"Add 5 and 3">>,
            <<"Write a TypeScript function that calculates the factorial of 5.">>}

LlmErrors == {<<"401 Unauthorized">>, <<"ECONNRESET">>}

\* What llm.invoke can produce: a reply text or a rejection.
LlmOutcomes == [kind : {"reply"}, text : Replies] \cup [kind : {"failed"}, text : LlmErrors]

\* What the generated script does when it is run.  kind is what its own logic
\* does: execute() returns value, the script throws error, or it never
\* terminates; at says whether that happens in its top-level statements or
\* inside execute().  declaresModule: the script itself declares a binding
\* named module.  reads: an ambient binding execute() reads ("" for none).
VmValues == {"8", "hi", "10n"}
VmThrown == {<<"execute is not defined">>}
VmBehaviours ==
  [kind : {"returns"}, value : VmValues, error : {<<>>}, at : {"execute"},
   declaresModule : BOOLEAN, reads : {""}]
  \cup [kind : {"returns"}, value : {"8"}, error : {<<>>}, at : {"execute"},
        declaresModule : BOOLEAN, reads : {"process"}]
  \cup [kind : {"throws"}, value : {""}, error : VmThrown, at : {"execute"},
        declaresModule : BOOLEAN, reads : {""}]
  \cup [kind : {"loops"}, value : {""}, error : {<<>>}, at : {"execute"},
        declaresModule : BOOLEAN, reads : {""}]
  \cup [kind : {"throws"}, value : {""}, error : VmThrown, at : {"top"},
        declaresModule : {FALSE}, reads : {""}]
  \cup [kind : {"loops"}, value : {""}, error : {<<>>}, at : {"top"},
        declaresModule : {FALSE}, reads : {""}]

Variants == {"plain", "effect"}

\* -------------------------------------------------------------- messages
HumanMessage(c) == [role |-> "human", content |-> c]
AIMessage(c) == [role |-> "ai", content |-> c]

NoCodeText == <<"I could not generate valid TypeScript code from your request.">>
NothingToEvaluateText == <<"No code was generated to evaluate.">>
GeneratedText(code) ==
  <<"I have generated the following TypeScript code:", FenceTs>> \o code \o <<Fence>>
EvaluationText(result) == <<"Code Evaluation Result:">> \o result
SuccessPrefix == "Execution successful. Result: "
FailurePrefix == "Code execution failed. Error: "
TimeoutError == <<"Script execution timed out after 1000ms">>
LlmInvocationFailed(e) == <<"LLM invocation failed: ">> \o e
InternalGenerationError(m) == <<"An internal error occurred during code generation: ">> \o m

\* ------------------------------------------------------------ extraction
RECURSIVE TrimLeft(_)
TrimLeft(s) == IF s # <<>> /\ Head(s) = Ws THEN TrimLeft(Tail(s)) ELSE s

RECURSIVE TrimRight(_)
TrimRight(s) ==
  IF s # <<>> /\ s[Len(s)] = Ws THEN TrimRight(SubSeq(s, 1, Len(s) - 1)) ELSE s

Trim_leftOnly(s) == TrimLeft(s)

\* String.prototype.trim
Trim(s) == TrimRight(TrimLeft(s))

Min(S) == CHOOSE m \in S : \A n \in S : m <= n

\* the same match with a greedy body, ([\s\S]*) in place of ([\s\S]*?)
ExtractCode_greedy(reply) ==
  LET opens == {i \in 1..Len(reply) : reply[i] = FenceTs}
  IN IF opens = {} THEN None
     ELSE LET i == Min(opens)
              closes == {j \in (i + 1)..Len(reply) : reply[j] \in {Fence, FenceTs}}
          IN IF closes = {} THEN None
             ELSE Some(Trim(SubSeq(reply, i + 1,
                                   (CHOOSE m \in closes : \A n \in closes : m >= n) - 1)))

\* response.content.toString().match(/<FenceTs>([\s\S]*?)<Fence>/)?.[1]?.trim()
\* The opening marker itself begins with three backquotes, so it also closes
\* a block that is already open.
ExtractCode(reply) ==
  LET opens == {i \in 1..Len(reply) : reply[i] = FenceTs}
  IN IF opens = {} THEN None
     ELSE LET i == Min(opens)
              closes == {j \in (i + 1)..Len(reply) : reply[j] \in {Fence, FenceTs}}
          IN IF closes = {} THEN None
             ELSE Some(Trim(SubSeq(reply, i + 1, Min(closes) - 1)))

Falsy_onlyUndefined(x) == x = None

\* !x for x : string | undefined
Falsy(x) == IF x = None THEN TRUE ELSE x[1] = <<>>

\* -------------------------------------------------------------- channels
\* channels.messages.value
messagesReducer_keepsOnlyNew(x, y) == SubSeq(y, Len(x) + 1, Len(y))
messagesReducer(x, y) == x \o y

\* channels.generatedCode.value and channels.evaluationResult.value: y ?? x
generatedCodeReducer_overwrites(x, y) == y
generatedCodeReducer_keepsFirst(x, y) == IF x # None THEN x ELSE y
generatedCodeReducer(x, y) == IF y # None THEN y ELSE x
evaluationResultReducer(x, y) == IF y # None THEN y ELSE x

\* The state a node receives: the current value of every channel.
State == [messages |-> messages, generatedCode |-> generatedCode,
          evaluationResult |-> evaluationResult]

\* A node's Partial<AgentState>; an absent key is None.
Update(m, g, e) == [messages |-> m, generatedCode |-> g, evaluationResult |-> e]

\* The channels after a node's result u has been written into the channels st.
Merge(st, u) ==
  [messages |-> IF u.messages = None THEN st.messages
                ELSE messagesReducer(st.messages, u.messages[1]),
   generatedCode |-> generatedCodeReducer(st.generatedCode, u.generatedCode),
   evaluationResult |-> evaluationResultReducer(st.evaluationResult, u.evaluationResult)]

\* Writing a node's result into the channels.
ApplyUpdate(u) ==
  /\ messages' = IF u.messages = None THEN messages
                 ELSE messagesReducer(messages, u.messages[1])
  /\ generatedCode' = generatedCodeReducer(generatedCode, u.generatedCode)
  /\ evaluationResult' = evaluationResultReducer(evaluationResult, u.evaluationResult)

\* ----------------------------------------------------------------- nodes
NoUserRequestText == <<"No user request provided">>

\* index.ts: (state.messages[state.messages.length - 1] as HumanMessage).content
\* None is the TypeError of reading content of undefined
plainRequest(msgs) == IF msgs = <<>> THEN None ELSE Some(Last(msgs).content)

\* gemini.ts: lastHumanMessage
lastHumanMessage(msgs) ==
  IF msgs # <<>> /\ Last(msgs).role = "human" THEN Last(msgs).content
  ELSE NoUserRequestText

generateCodeNode_fallsBackToReply(state, reply) ==
  LET code == ExtractCode(reply)
  IN IF Falsy(code)
     THEN Update(Some(Append(state.messages, AIMessage(NoCodeText))), Some(reply), None)
     ELSE Update(Some(Append(state.messages, AIMessage(GeneratedText(code[1])))),
                 code, None)

\* generateCodeNode after llm.invoke has resolved with the text reply
generateCodeNode(state, reply) ==
  LET code == ExtractCode(reply)
  IN IF Falsy(code)
     THEN Update(Some(Append(state.messages, AIMessage(NoCodeText))), None, None)
     ELSE Update(Some(Append(state.messages, AIMessage(GeneratedText(code[1])))),
                 code, None)

\* The catchAll of generateCodeNodeEffectWrapper, e the failure of invokeChat
generateCodeNodeEffectWrapper(state, e) ==
  Update(Some(Append(state.messages,
                     AIMessage(InternalGenerationError(LlmInvocationFailed(e))))),
         None, None)

\* JSON.stringify of the value execute() returned; a BigInt cannot be serialized
StringifyThrows(v) == v = "10n"
StringifyError == <<"Do not know how to serialize a BigInt">>
JSONStringify(v) == IF v = "hi" THEN <<"<quote>", v, "<quote>">> ELSE <<v>>

\* sandbox: {} -- the bindings the VM exposes to the script
SandboxGlobals_exposesProcess == {"process"}
SandboxGlobals == {}

\* A name the script can resolve: exposed by the sandbox or declared by itself
Resolves(name, b) == name \in SandboxGlobals \/ (name = "module" /\ b.declaresModule)

\* ReferenceError of an unresolvable name
NotDefined(name) == <<name, " is not defined">>

Thrown(e) == [kind |-> "throws", value |-> "", error |-> e]

\* vm.run(code + "module.exports = execute();"): the script's top level runs
\* first; the assignment then resolves module before it calls execute()
wrappedCode(b) ==
  IF b.at = "top" THEN [kind |-> b.kind, value |-> b.value, error |-> b.error]
  ELSE IF ~Resolves("module", b) THEN Thrown(NotDefined("module"))
  ELSE IF b.reads # "" /\ ~Resolves(b.reads, b) THEN Thrown(NotDefined(b.reads))
  ELSE [kind |-> b.kind, value |-> b.value, error |-> b.error]

\* What the try block around vm.run and JSON.stringify ends with:
\* [ok |-> TRUE, text] or [ok |-> FALSE, text |-> error.message]
TryRun(b, timedOut) ==
  IF timedOut THEN [ok |-> FALSE, text |-> TimeoutError]
  ELSE IF b.kind = "throws" THEN [ok |-> FALSE, text |-> b.error]
  ELSE IF StringifyThrows(b.value) THEN [ok |-> FALSE, text |-> StringifyError]
  ELSE [ok |-> TRUE, text |-> <<SuccessPrefix>> \o JSONStringify(b.value)]

\* index.ts: result of the try/catch in evaluateCodeNode
plainResult(r) == IF r.ok THEN r.text ELSE <<FailurePrefix>> \o r.text

\* gemini.ts: executeCode wraps the fault in Error(FailurePrefix + message),
\* and evaluateCodeNode's catchAll prefixes error.message again
effectResult(r) == IF r.ok THEN r.text ELSE <<FailurePrefix>> \o (<<FailurePrefix>> \o r.text)

evaluateCodeNodeNoCode_countsAttempts(state) ==
  Update(Some(Append(state.messages,
                     AIMessage(IF state.messages # <<>>
                                  /\ Last(state.messages) = AIMessage(NothingToEvaluateText)
                               THEN NothingToEvaluateText \o <<"(again)">>
                               ELSE NothingToEvaluateText))),
         None, None)

evaluateCodeNodeNoCode_setsResult(state) ==
  Update(Some(Append(state.messages, AIMessage(NothingToEvaluateText))), None,
         Some(NothingToEvaluateText))

\* evaluateCodeNode when state.generatedCode is falsy
evaluateCodeNodeNoCode(state) ==
  Update(Some(Append(state.messages, AIMessage(NothingToEvaluateText))), None, None)

evaluateCodeNode_messageOnly(state, result) ==
  Update(Some(Append(state.messages, AIMessage(EvaluationText(result)))), None, None)

evaluateCodeNode_storesMessageText(state, result) ==
  Update(Some(Append(state.messages, AIMessage(EvaluationText(result)))),
         None, Some(EvaluationText(result)))

\* evaluateCodeNode once the sandbox attempt has ended with result
evaluateCodeNode(state, result) ==
  Update(Some(Append(state.messages, AIMessage(EvaluationText(result)))),
         None, Some(result))

TimedOut_never(elapsed) == FALSE

\* vm2 aborts the script once it has run for the configured timeout
TimedOut(elapsed) == elapsed >= VMTimeoutMs

NoVm == [state |-> "none",
         behaviour |-> [kind |-> "none", value |-> "", error |-> <<>>, at |-> "",
                        declaresModule |-> FALSE, reads |-> ""],
         elapsed |-> 0]

\* const vm = new VM({timeout: 1000, sandbox: {}}), about to run the script b
NewVM(b) == [state |-> "running", behaviour |-> b, elapsed |-> 0]

Discard_keeps(v) == v

\* vm is local to the try block: after it the sandbox is unreachable
Discard(v) == [v EXCEPT !.state = "discarded"]

\* The experiments outside the agent workflow are not running.
SeqUnused == tasks = <<>> /\ events = <<>>
TradeUnused ==
  /\ tradePc = "unused"
  /\ tradeMessages = <<>>
  /\ stockSymbol = None
  /\ analysisResult = None
  /\ tradeExecuted = None
  /\ alpacaError = None
  /\ analysisCall = None
  /\ paperTrading = FALSE
  /\ orders = <<>>
ForkUnused ==
  /\ forkProgram = "unused"
  /\ forkItem = ""
  /\ forkQueue = <<>>
  /\ forkMain = <<>>
  /\ forkFiber = <<>>
ProdUnused ==
  /\ prodQueue = <<>>
  /\ prodMain = <<>>
  /\ consumer = <<>>
  /\ offered = <<>>
  /\ consumed = <<>>
NvUnused ==
  /\ nvPc = "unused"
  /\ nvClient = <<>>
  /\ nvQuantity = 0
  /\ nvQuote = <<>>
  /\ nvClock = <<>>
  /\ nvWarned = FALSE
  /\ nvOrders = <<>>
  /\ nvError = <<>>
LayerUnused ==
  /\ layerProgram = "unused"
  /\ processEnv = <<>>
  /\ layerPc = "unused"
  /\ built = <<>>
  /\ layerLog = <<>>
  /\ layerError = <<>>
MoreUnused == ForkUnused /\ ProdUnused /\ NvUnused /\ LayerUnused
LabUnused == SeqUnused /\ TradeUnused /\ MoreUnused

\* ------------------------------------------------------------------ Init
Init ==
  /\ variant \in Variants
  /\ pc = "idle"
  /\ outcome = "running"
  /\ input = <<>>
  /\ messages = <<>>
  /\ generatedCode = None
  /\ evaluationResult = None
  /\ llmResult = None
  /\ vm = NoVm
  /\ vmCreated = 0
  /\ visited = <<>>
  /\ request = None
  /\ calls = 0
  /\ runs = <<>>
  /\ channels = <<>>
  /\ LabUnused

\* --------------------------------------------------------------- actions
\* runWorkflow(prompt): app.invoke({messages: [new HumanMessage(prompt)]})
runWorkflow(prompt) ==
  /\ pc = "idle"
  /\ input' = <<HumanMessage(prompt)>>
  /\ ApplyUpdate(Update(Some(<<HumanMessage(prompt)>>), None, None))
  /\ pc' = "START"
  /\ visited' = Append(visited, "START")
  /\ UNCHANGED <<variant, request, calls, runs, channels, labVars, outcome, llmResult, vm, vmCreated>>

\* edge START -> generate_code: the node starts and awaits the model call
StartGenerate ==
  /\ pc = "START"
  /\ pc' = "Generating"
  /\ visited' = Append(visited, "Generating")
  /\ request' = IF variant = "plain" THEN plainRequest(messages)
                ELSE Some(lastHumanMessage(messages))
  /\ outcome' = IF request' = None THEN "raised" ELSE outcome
  /\ UNCHANGED <<variant, calls, runs, channels, labVars, input, messages, generatedCode,
                 evaluationResult, llmResult, vm, vmCreated>>

\* the model call resolves; the node finishes; edge generate_code -> evaluate_code
LlmReply(text) ==
  /\ pc = "Generating" /\ outcome = "running" /\ llmResult = None
  /\ llmResult' = Some([kind |-> "reply", text |-> text])
  /\ ApplyUpdate(generateCodeNode(State, text))
  /\ pc' = "Evaluating"
  /\ visited' = Append(visited, "Evaluating")
  /\ UNCHANGED <<variant, request, calls, runs, channels, labVars, outcome, input, vm, vmCreated>>

\* the model call rejects: index.ts has no handler, the rejection leaves
\* app.invoke and runWorkflow; gemini.ts recovers in the wrapper's catchAll
LlmFail(e) ==
  /\ pc = "Generating" /\ outcome = "running" /\ llmResult = None
  /\ llmResult' = Some([kind |-> "failed", text |-> e])
  /\ IF variant = "plain"
     THEN /\ outcome' = "raised"
          /\ UNCHANGED <<pc, visited, messages, generatedCode, evaluationResult>>
     ELSE /\ ApplyUpdate(generateCodeNodeEffectWrapper(State, e))
          /\ pc' = "Evaluating"
          /\ visited' = Append(visited, "Evaluating")
          /\ UNCHANGED outcome
  /\ UNCHANGED <<variant, request, calls, runs, channels, labVars, input, vm, vmCreated>>

\* evaluateCodeNode, branch if (!code); edge evaluate_code -> END
EvaluateNoCode ==
  /\ pc = "Evaluating" /\ vm.state = "none"
  /\ Falsy(generatedCode)
  /\ ApplyUpdate(evaluateCodeNodeNoCode(State))
  /\ pc' = "DONE"
  /\ outcome' = "returned"
  /\ visited' = Append(visited, "DONE")
  /\ UNCHANGED <<variant, request, calls, runs, channels, labVars, input, llmResult, vm, vmCreated>>

\* new VM({timeout: 1000, sandbox: {}}) and vm.run(wrappedCode) begins
VMRun(b) ==
  /\ pc = "Evaluating" /\ vm.state = "none"
  /\ ~Falsy(generatedCode)
  /\ vm' = NewVM(b)
  /\ vmCreated' = vmCreated + 1
  /\ UNCHANGED <<variant, request, calls, runs, channels, labVars, pc, outcome, input, messages, generatedCode,
                 evaluationResult, llmResult, visited>>

\* the script keeps running inside the sandbox
VMTick ==
  /\ vm.state = "running"
  /\ ~TimedOut(vm.elapsed)
  /\ vm.elapsed < MaxElapsedMs
  /\ vm' = [vm EXCEPT !.elapsed = @ + TickMs]
  /\ UNCHANGED <<variant, request, calls, runs, channels, labVars, pc, outcome, input, messages, generatedCode,
                 evaluationResult, llmResult, vmCreated, visited>>

\* the rest of evaluateCodeNode after the try block; edge evaluate_code -> END
FinishEvaluate(r) ==
  /\ ApplyUpdate(evaluateCodeNode(State,
                   IF variant = "plain" THEN plainResult(r) ELSE effectResult(r)))
  /\ vm' = Discard(vm)
  /\ pc' = "DONE"
  /\ outcome' = "returned"
  /\ visited' = Append(visited, "DONE")
  /\ UNCHANGED <<variant, request, calls, runs, channels, labVars, input, llmResult, vmCreated>>

\* execute() returns or throws before the timeout
VMComplete ==
  /\ vm.state = "running"
  /\ ~TimedOut(vm.elapsed)
  /\ wrappedCode(vm.behaviour).kind \in {"returns", "throws"}
  /\ FinishEvaluate(TryRun(wrappedCode(vm.behaviour), FALSE))

\* the timeout aborts the script: vm.run throws
VMTimeout ==
  /\ vm.state = "running"
  /\ TimedOut(vm.elapsed)
  /\ FinishEvaluate(TryRun(wrappedCode(vm.behaviour), TRUE))

Next ==
  \/ \E prompt \in Prompts : runWorkflow(prompt)
  \/ StartGenerate
  \/ \E text \in Replies : LlmReply(text)
  \/ \E e \in LlmErrors : LlmFail(e)
  \/ EvaluateNoCode
  \/ \E b \in VmBehaviours : VMRun(b)
  \/ VMTick
  \/ VMComplete
  \/ VMTimeout

Spec == Init /\ [][Next]_vars

\* The event loop keeps running enabled steps, and the model call is assumed
\* to resolve or reject eventually.
FairSpec == Spec /\ WF_vars(Next)

TypeOK ==
  /\ variant \in Variants
  /\ pc \in {"idle", "START", "Generating", "Evaluating", "DONE"}
  /\ outcome \in {"running", "returned", "raised"}
  /\ Len(generatedCode) <= 1 /\ Len(evaluationResult) <= 1
  /\ vm.state \in {"none", "running", "discarded"}
  /\ vmCreated \in 0..1

\* ------------------------------------------- the nodes called on any state
\* States a caller can hand to the graph's nodes: an empty transcript, a seed,
\* a transcript ending with an assistant message; with or without code and
\* result left by an earlier run.
StagePrompt == <<"Add 5 and 3">>
StageTranscripts ==
  {<<>>, <<HumanMessage(StagePrompt)>>,
   <<HumanMessage(StagePrompt), AIMessage(NoCodeText)>>}
StaleCode == "function execute(): number { return 1; }"
StageFields ==
  {<<None, None>>, <<Some(<<StaleCode>>), None>>,
   <<Some(<<StaleCode>>), Some(<<SuccessPrefix, "1">>)>>}
StageReplies == {<<Prose>>, <<FenceTs, ExampleCode, Fence>>, <<FenceTs, Ws, Fence>>}
StageErrors == {<<"ECONNRESET">>}
StageBehaviours ==
  {b \in VmBehaviours :
     \/ b.kind = "returns" /\ b.value = "8" /\ b.reads = ""
     \/ b.kind = "loops" /\ b.at = "top"}

StageInit ==
  /\ variant \in Variants
  /\ pc = "idle"
  /\ outcome = "running"
  /\ messages \in StageTranscripts
  /\ input = messages
  /\ \E f \in StageFields : generatedCode = f[1] /\ evaluationResult = f[2]
  /\ llmResult = None
  /\ vm = NoVm
  /\ vmCreated = 0
  /\ visited = <<>>
  /\ request = None
  /\ calls = 0
  /\ runs = <<>>
  /\ channels = <<>>
  /\ LabUnused

\* The caller runs one node on the current state: generate_code (followed by
\* its edge to evaluate_code) or evaluate_code alone.
CallStage(stage) ==
  /\ pc \in {"idle", "DONE"} /\ outcome # "raised"
  /\ calls < MaxStageCalls
  /\ calls' = calls + 1
  /\ pc' = IF stage = "generate" THEN "START" ELSE "Evaluating"
  /\ visited' = Append(visited, pc')
  /\ outcome' = "running"
  /\ llmResult' = None
  /\ vm' = NoVm
  /\ UNCHANGED <<variant, request, runs, channels, labVars, input, messages, generatedCode,
                 evaluationResult, vmCreated>>

StageNext ==
  \/ \E stage \in {"generate", "evaluate"} : CallStage(stage)
  \/ StartGenerate
  \/ \E text \in StageReplies : LlmReply(text)
  \/ \E e \in StageErrors : LlmFail(e)
  \/ EvaluateNoCode
  \/ \E b \in StageBehaviours : VMRun(b)
  \/ VMTick
  \/ VMComplete
  \/ VMTimeout

StageSpec == StageInit /\ [][StageNext]_vars

\* ------------------------------------------- extraction applied to any reply
ExtractReplies == SeqsUpTo(ReplyAlphabet, MaxExtractLen)

ExtractInit ==
  /\ variant \in Variants
  /\ pc = "idle"
  /\ outcome = "running"
  /\ input = <<>>
  /\ messages = <<>>
  /\ generatedCode = None
  /\ evaluationResult = None
  /\ llmResult = None
  /\ vm = NoVm
  /\ vmCreated = 0
  /\ visited = <<>>
  /\ request = None
  /\ calls = 0
  /\ runs = <<>>
  /\ channels = <<>>
  /\ LabUnused

\* const generatedCode = response.content.toString().match(...)?.[1]?.trim()
\* the local constant is kept in generatedCode, the reply in llmResult
Extract(reply) ==
  /\ pc = "idle"
  /\ llmResult' = Some([kind |-> "reply", text |-> reply])
  /\ generatedCode' = ExtractCode(reply)
  /\ pc' = "Extracted"
  /\ UNCHANGED <<variant, outcome, input, messages, evaluationResult, vm, vmCreated,
                 visited, request, calls, runs, channels, labVars>>

ExtractNext == \E reply \in ExtractReplies : Extract(reply)

ExtractSpec == ExtractInit /\ [][ExtractNext]_vars

\* ------------------------------------------------ sequential-execution.ts
\* The agent workflow and the two-run harness are not running.
AgentUnused ==
  /\ variant = "plain"
  /\ pc = "idle"
  /\ outcome = "running"
  /\ input = <<>>
  /\ messages = <<>>
  /\ generatedCode = None
  /\ evaluationResult = None
  /\ llmResult = None
  /\ vm = NoVm
  /\ vmCreated = 0
  /\ visited = <<>>
  /\ request = None
  /\ calls = 0
  /\ runs = <<>>
  /\ channels = <<>>

\* makeTask(n, delay): the delays tried; the program has 200 ms and 100 ms
TaskDelays == {100, 200, 300}

\* makeTask(n, delay), not yet run
makeTask(n, delay) == [n |-> n, delay |-> delay, status |-> "pending", remaining |-> 0]

\* console.log of the promise executor and of the timer callback
StartLine(n) == <<"start task", n>>
DoneLine(n) == <<"task", n, " done">>

CanStart_unbounded(n) == tasks[n].status = "pending"

\* Effect.all(tasks) with no options: the effects run one after the other,
\* effect n once the effects before it have completed
CanStart(n) ==
  /\ tasks[n].status = "pending"
  /\ \A m \in 1..(n - 1) : tasks[m].status = "done"

Running == {n \in DOMAIN tasks : tasks[n].status = "running"}

SeqInit ==
  /\ \E k \in 2..MaxTasks : \E d \in [1..k -> TaskDelays] :
       tasks = [n \in 1..k |-> makeTask(n, d[n])]
  /\ events = <<>>
  /\ TradeUnused
  /\ MoreUnused
  /\ AgentUnused

\* Effect.promise runs the thunk: the executor logs and arms the timer
StartTask(n) ==
  /\ CanStart(n)
  /\ tasks' = [tasks EXCEPT ![n].status = "running", ![n].remaining = tasks[n].delay]
  /\ events' = Append(events, StartLine(n))
  /\ UNCHANGED <<agentVars, pairVars, tradeVars, moreVars>>

\* time passes until the next armed timer is due
TimePasses ==
  /\ Running # {}
  /\ \A n \in Running : tasks[n].remaining > 0
  /\ LET dt == Min({tasks[n].remaining : n \in Running})
     IN tasks' = [n \in DOMAIN tasks |->
                    IF n \in Running THEN [tasks[n] EXCEPT !.remaining = @ - dt]
                    ELSE tasks[n]]
  /\ UNCHANGED <<events, agentVars, pairVars, tradeVars, moreVars>>

\* the setTimeout callback: logs and resolves the promise
TimerFires(n) ==
  /\ tasks[n].status = "running" /\ tasks[n].remaining = 0
  /\ tasks' = [tasks EXCEPT ![n].status = "done"]
  /\ events' = Append(events, DoneLine(n))
  /\ UNCHANGED <<agentVars, pairVars, tradeVars, moreVars>>

SeqNext ==
  \/ \E n \in DOMAIN tasks : StartTask(n)
  \/ TimePasses
  \/ \E n \in DOMAIN tasks : TimerFires(n)

SeqSpec == SeqInit /\ [][SeqNext]_vars

\* ------------------------------------------- the trade workflow (part_000)
ToolMessage(c) == [role |-> "tool", content |-> c]

TradePrompts ==
  {<<"Analyze Tesla stock (TSLA) for potential buy. Consider recent news and future outlook.">>,
   <<"Should I buy or hold Apple (AAPL)? Look at its recent performance and market stability.">>}

\* StockAnalysisSchema: what llmWithStructuredOutput.invoke resolves with;
\* z.string() admits the empty symbol, targetPrice is optional
StockAnalyses ==
  [symbol : {"TSLA", ""}, sentiment : {"positive", "negative", "neutral"},
   reasoning : {"Recent news."}, recommendation : {"BUY", "SELL", "HOLD"},
   targetPrice : {None, Some("250")}]
AnalysisErrors == {<<"Failed to parse structured output">>, <<"401 Unauthorized">>}
OrderIds == {"sim_order_k3x9", "sim_order_a1b2"}

AnalysisErrorText(e) == <<"Error in analysis: ">> \o e
AnalysisText(a) ==
  <<"Based on my analysis for ", a.symbol, "Sentiment: ", a.sentiment,
    "Recommendation: ", a.recommendation, "Reasoning: ", a.reasoning>>
  \o (IF a.targetPrice # None THEN <<"Target Price: $", a.targetPrice[1]>> ELSE <<>>)
  \o <<"Proceeding to make a trading decision.">>
NoBuyText == <<"Internal error: Trade execution requested without a BUY recommendation.">>
NoBuyError == <<"Internal error: No BUY recommendation.">>

\* String.prototype.includes for a marker that is a token of the text
Includes(text, marker) == \E i \in 1..Len(text) : text[i] = marker

\* The state a trade node receives
TradeState ==
  [messages |-> tradeMessages, stockSymbol |-> stockSymbol,
   analysisResult |-> analysisResult, tradeExecuted |-> tradeExecuted,
   alpacaError |-> alpacaError]

\* A trade node's Partial<AgentState>; an absent or undefined key is None
TradeUpdate(m, sym, a, done, err) ==
  [messages |-> m, stockSymbol |-> sym, analysisResult |-> a,
   tradeExecuted |-> done, alpacaError |-> err]

\* channels.<field>.value of the optional fields: y ?? x
tradeReducer(x, y) == IF y # None THEN y ELSE x

ApplyTradeUpdate(u) ==
  /\ tradeMessages' = IF u.messages = None THEN tradeMessages
                      ELSE messagesReducer(tradeMessages, u.messages[1])
  /\ stockSymbol' = tradeReducer(stockSymbol, u.stockSymbol)
  /\ analysisResult' = tradeReducer(analysisResult, u.analysisResult)
  /\ tradeExecuted' = tradeReducer(tradeExecuted, u.tradeExecuted)
  /\ alpacaError' = tradeReducer(alpacaError, u.alpacaError)

analyzeAndDecideNodeCatch_defaultsToBuy(state, e) ==
  TradeUpdate(Some(Append(state.messages, AIMessage(AnalysisErrorText(e)))),
              Some("TSLA"),
              Some([symbol |-> "TSLA", sentiment |-> "neutral", reasoning |-> "Recent news.",
                    recommendation |-> "BUY", targetPrice |-> None]),
              None, None)

\* analyzeAndDecideNode, the catch block around the structured model call
analyzeAndDecideNodeCatch(state, e) ==
  TradeUpdate(Some(Append(state.messages, AIMessage(AnalysisErrorText(e)))),
              None, None, None, None)

\* analyzeAndDecideNode once the structured model call has resolved with a
analyzeAndDecideNode(state, a) ==
  TradeUpdate(Some(Append(state.messages, AIMessage(AnalysisText(a)))),
              Some(a.symbol), Some(a), None, None)

routeDecision_tradesOnSell(state) ==
  IF state.analysisResult = None THEN "END"
  ELSE IF state.analysisResult[1].recommendation \in {"BUY", "SELL"} THEN "execute_trade"
  ELSE "END"

\* routeDecision and the conditional edges: "end" is mapped to END
routeDecision(state) ==
  IF state.analysisResult = None THEN "END"
  ELSE IF state.analysisResult[1].recommendation = "BUY" THEN "execute_trade"
  ELSE "END"

\* executeTradeNode: if (!analysis || analysis.recommendation !== "BUY" || !symbol)
TradeRefused(state) ==
  \/ state.analysisResult = None
  \/ state.analysisResult[1].recommendation # "BUY"
  \/ state.stockSymbol = None
  \/ state.stockSymbol[1] = ""

\* SimulatedAlpacaClient.placeOrder: accepted in paper trading, throws otherwise
placeOrder(symbol, qty, id) ==
  IF paperTrading
  THEN [ok |-> TRUE,
        order |-> [id |-> id, symbol |-> symbol, qty |-> qty, side |-> "buy",
                   status |-> "accepted"]]
  ELSE [ok |-> FALSE, order |-> <<"Live trading not implemented in this simulation.">>]

\* a share count inside a template literal
QtyText(qty) == IF qty = 1 THEN "1" ELSE "many"

\* alpacaBuyStockTool: the string the tool returns
alpacaBuyStockTool(symbol, qty, id) ==
  LET r == placeOrder(symbol, qty, id)
  IN IF r.ok
     THEN <<"Successfully placed", " a BUY order for ", QtyText(qty), " shares of ", symbol,
            ". Order ID: ", id, ". Status: ", "accepted", ". Message: ",
            "Simulated order ", id, " placed successfully in paper account.">>
     ELSE <<"Failed", " to place BUY order for ", symbol, ": ">> \o r.order

\* executeTradeNode
executeTradeNode(state, id) ==
  IF TradeRefused(state)
  THEN TradeUpdate(Some(Append(state.messages, AIMessage(NoBuyText))), None, None, None,
                   Some(NoBuyError))
  ELSE LET toolResult == alpacaBuyStockTool(state.stockSymbol[1], 1, id)
       IN TradeUpdate(Some(Append(state.messages, ToolMessage(toolResult))), None, None,
                      Some(Includes(toolResult, "Successfully placed")),
                      IF Includes(toolResult, "Failed") THEN Some(toolResult) ELSE None)

TradeInit ==
  /\ tradePc = "idle"
  /\ tradeMessages = <<>>
  /\ stockSymbol = None
  /\ analysisResult = None
  /\ tradeExecuted = None
  /\ alpacaError = None
  /\ analysisCall = None
  /\ paperTrading \in BOOLEAN
  /\ orders = <<>>
  /\ SeqUnused
  /\ MoreUnused
  /\ AgentUnused

\* runTradeWorkflow(stockPrompt): tradeApp.invoke({messages: [new HumanMessage(stockPrompt)]})
runTradeWorkflow(prompt) ==
  /\ tradePc = "idle"
  /\ ApplyTradeUpdate(TradeUpdate(Some(<<HumanMessage(prompt)>>), None, None, None, None))
  /\ tradePc' = "analyze_and_decide"
  /\ UNCHANGED <<analysisCall, paperTrading, orders, agentVars, pairVars, seqVars, moreVars>>

\* the structured model call resolves: the node returns and routeDecision
\* chooses the next node
AnalysisReturns(a) ==
  /\ tradePc = "analyze_and_decide"
  /\ analysisCall' = Some([kind |-> "analysis", analysis |-> a])
  /\ ApplyTradeUpdate(analyzeAndDecideNode(TradeState, a))
  /\ tradePc' = routeDecision(TradeState')
  /\ UNCHANGED <<paperTrading, orders, agentVars, pairVars, seqVars, moreVars>>

\* the structured model call throws: the catch block returns and routeDecision
\* chooses the next node
AnalysisFails(e) ==
  /\ tradePc = "analyze_and_decide"
  /\ analysisCall' = Some([kind |-> "failed", error |-> e])
  /\ ApplyTradeUpdate(analyzeAndDecideNodeCatch(TradeState, e))
  /\ tradePc' = routeDecision(TradeState')
  /\ UNCHANGED <<paperTrading, orders, agentVars, pairVars, seqVars, moreVars>>

\* execute_trade runs; edge execute_trade -> END
ExecuteTrade(id) ==
  /\ tradePc = "execute_trade"
  /\ ApplyTradeUpdate(executeTradeNode(TradeState, id))
  /\ orders' = IF ~TradeRefused(TradeState) /\ placeOrder(stockSymbol[1], 1, id).ok
               THEN Append(orders, placeOrder(stockSymbol[1], 1, id).order)
               ELSE orders
  /\ tradePc' = "END"
  /\ UNCHANGED <<analysisCall, paperTrading, agentVars, pairVars, seqVars, moreVars>>

TradeNext ==
  \/ \E prompt \in TradePrompts : runTradeWorkflow(prompt)
  \/ \E a \in StockAnalyses : AnalysisReturns(a)
  \/ \E e \in AnalysisErrors : AnalysisFails(e)
  \/ \E id \in OrderIds : ExecuteTrade(id)

TradeSpec == TradeInit /\ [][TradeNext]_vars

\* ------------------------------------- part_003 and lab/queue.ts: the queue
ForkPrograms == {"fork-take", "offer-take"}
ForkItems == {"something", "1", "else", "more"}
ForkCapacities == {1, 2, 100}

\* Queue.bounded(capacity): the items held and the fibers suspended in take
QueueBounded(capacity) == [capacity |-> capacity, items |-> <<>>, takers |-> <<>>]

QueueOffer_forgetsTakers(qu, x) ==
  [q |-> [qu EXCEPT !.items = Append(@, x)], woken |-> None, accepted |-> TRUE]

\* Queue.offer(q, x): the item goes to the longest-waiting taker if there is
\* one, is stored if there is room, and otherwise the offer suspends
QueueOffer(qu, x) ==
  IF qu.takers # <<>>
  THEN [q |-> [qu EXCEPT !.takers = Tail(@)], woken |-> Some(Head(qu.takers)),
        accepted |-> TRUE]
  ELSE IF Len(qu.items) < qu.capacity
  THEN [q |-> [qu EXCEPT !.items = Append(@, x)], woken |-> None, accepted |-> TRUE]
  ELSE [q |-> qu, woken |-> None, accepted |-> FALSE]

\* Queue.take(q) by fiber f: the oldest item if there is one, otherwise f
\* suspends as a taker
QueueTake(qu, f) ==
  IF qu.items # <<>>
  THEN [q |-> [qu EXCEPT !.items = Tail(@)], value |-> Some(Head(qu.items))]
  ELSE [q |-> [qu EXCEPT !.takers = Append(@, f)], value |-> None]

ForkInit ==
  /\ forkProgram \in ForkPrograms
  /\ forkItem \in ForkItems
  /\ \E c \in ForkCapacities : forkQueue = QueueBounded(c)
  /\ forkMain = [pc |-> IF forkProgram = "fork-take" THEN "fork" ELSE "offer",
                 value |-> None]
  /\ forkFiber = [pc |-> "unstarted", value |-> None, waited |-> FALSE]
  /\ SeqUnused /\ TradeUnused /\ AgentUnused /\ ProdUnused /\ NvUnused
  /\ LayerUnused

ForkFrame ==
  UNCHANGED <<forkProgram, forkItem, coreVars, prodVars, nvVars, layerVars>>

\* const fiber = yield* Effect.fork(Queue.take(q)): the child is scheduled
ForkTake ==
  /\ forkMain.pc = "fork"
  /\ forkFiber' = [forkFiber EXCEPT !.pc = "scheduled"]
  /\ forkMain' = [forkMain EXCEPT !.pc = "offer"]
  /\ UNCHANGED forkQueue
  /\ ForkFrame

\* the forked fiber runs Queue.take(q)
FiberTake ==
  /\ forkFiber.pc = "scheduled"
  /\ LET t == QueueTake(forkQueue, "fiber")
     IN /\ forkQueue' = t.q
        /\ forkFiber' = IF t.value # None
                        THEN [forkFiber EXCEPT !.pc = "done", !.value = t.value]
                        ELSE [forkFiber EXCEPT !.pc = "suspended", !.waited = TRUE]
  /\ UNCHANGED forkMain
  /\ ForkFrame

\* yield* Queue.offer(q, item) in the main fiber
MainOffer ==
  /\ forkMain.pc = "offer"
  /\ LET o == QueueOffer(forkQueue, forkItem)
     IN /\ o.accepted
        /\ forkQueue' = o.q
        /\ forkFiber' = IF o.woken = Some("fiber")
                        THEN [forkFiber EXCEPT !.pc = "resumed", !.value = Some(forkItem)]
                        ELSE forkFiber
  /\ forkMain' = [forkMain EXCEPT !.pc = IF forkProgram = "fork-take" THEN "join"
                                         ELSE "take"]
  /\ ForkFrame

\* the suspended take continues with the item it was handed
FiberResume ==
  /\ forkFiber.pc = "resumed"
  /\ forkFiber' = [forkFiber EXCEPT !.pc = "done"]
  /\ UNCHANGED <<forkQueue, forkMain>>
  /\ ForkFrame

\* const value = yield* Fiber.join(fiber); return value
MainJoin ==
  /\ forkMain.pc = "join"
  /\ forkFiber.pc = "done"
  /\ forkMain' = [pc |-> "done", value |-> forkFiber.value]
  /\ UNCHANGED <<forkQueue, forkFiber>>
  /\ ForkFrame

\* lab/queue.ts: const value = yield* Queue.take(queue); return value
MainTake ==
  /\ forkMain.pc = "take"
  /\ LET t == QueueTake(forkQueue, "main")
     IN /\ forkQueue' = t.q
        /\ forkMain' = IF t.value # None THEN [pc |-> "done", value |-> t.value]
                       ELSE [forkMain EXCEPT !.pc = "suspended"]
  /\ UNCHANGED forkFiber
  /\ ForkFrame

ForkNext ==
  \/ ForkTake
  \/ FiberTake
  \/ MainOffer
  \/ FiberResume
  \/ MainJoin
  \/ MainTake

ForkSpec == ForkInit /\ [][ForkNext]_vars

\* The runtime keeps running fibers that can take a step.
ForkFairSpec == ForkSpec /\ WF_vars(ForkNext)

\* ------------------------------------------ part_001: producer and consumer
\* Queue.unbounded(): no offer ever suspends
QueueUnbounded == QueueBounded(2147483647)

\* Random.next of the k-th run of producerAction, as the text put on the queue
RandomNext(k) == k

\* policy = Schedule.addDelay(Schedule.recurs(10), ...): after the k-th run
\* of the action the schedule asks for another run, after the delay
policy(k) == k <= Recurs

consumerUntil_trueAfterFirst(n) == n >= 1

\* until: () => Effect.succeed(false), asked after the n-th consumed message
consumerUntil(n) == FALSE

\* The consumer has nothing to do until another message arrives
ConsumerSettled == consumer.pc \in {"suspended", "interrupted", "ended"}

ProdInit ==
  /\ prodQueue = QueueUnbounded
  /\ prodMain = [pc |-> "fork", runs |-> 0]
  /\ consumer = [pc |-> "unstarted", value |-> None]
  /\ offered = <<>>
  /\ consumed = <<>>
  /\ SeqUnused /\ TradeUnused /\ AgentUnused /\ ForkUnused /\ NvUnused
  /\ LayerUnused

ProdFrame == UNCHANGED <<coreVars, forkVars, nvVars, layerVars>>

\* const consumerFiber = yield* Effect.fork(consumerProgram)
ForkConsumer ==
  /\ prodMain.pc = "fork"
  /\ prodMain' = [prodMain EXCEPT !.pc = "sleep"]
  /\ consumer' = [consumer EXCEPT !.pc = "starting"]
  /\ UNCHANGED <<prodQueue, offered, consumed>>
  /\ ProdFrame

\* yield* Effect.sleep(Duration.millis(100)): the time passes once the
\* consumer has nothing left to do
MainSleep ==
  /\ prodMain.pc = "sleep"
  /\ ConsumerSettled
  /\ prodMain' = [prodMain EXCEPT !.pc = "offer"]
  /\ UNCHANGED <<prodQueue, consumer, offered, consumed>>
  /\ ProdFrame

\* producerAction: Random.next and Queue.offer(q, rnd.toString())
producerAction ==
  /\ prodMain.pc = "offer"
  /\ LET msg == RandomNext(prodMain.runs + 1)
         o == QueueOffer(prodQueue, msg)
     IN /\ o.accepted
        /\ prodQueue' = o.q
        /\ offered' = Append(offered, msg)
        /\ consumer' = IF o.woken = Some("consumer")
                       THEN [pc |-> "resumed", value |-> Some(msg)]
                       ELSE consumer
  /\ prodMain' = [pc |-> "log", runs |-> prodMain.runs + 1]
  /\ UNCHANGED consumed
  /\ ProdFrame

\* Console.log(... added to the queue) ends the run; the schedule decides
ProducerLogged ==
  /\ prodMain.pc = "log"
  /\ prodMain' = [prodMain EXCEPT !.pc = IF policy(prodMain.runs) THEN "delay"
                                         ELSE "interrupt"]
  /\ UNCHANGED <<prodQueue, consumer, offered, consumed>>
  /\ ProdFrame

\* the 5 seconds of the schedule pass, once the consumer has nothing left to do
ScheduleDelay ==
  /\ prodMain.pc = "delay"
  /\ ConsumerSettled
  /\ prodMain' = [prodMain EXCEPT !.pc = "offer"]
  /\ UNCHANGED <<prodQueue, consumer, offered, consumed>>
  /\ ProdFrame

\* yield* Fiber.interrupt(consumerFiber): the consumer ends wherever it is
InterruptConsumer ==
  /\ prodMain.pc = "interrupt"
  /\ consumer' = [consumer EXCEPT !.pc = IF @ = "ended" THEN @ ELSE "interrupted"]
  /\ prodQueue' = [prodQueue EXCEPT !.takers = <<>>]
  /\ prodMain' = [prodMain EXCEPT !.pc = "finish"]
  /\ UNCHANGED <<offered, consumed>>
  /\ ProdFrame

\* yield* Console.log("Main program is finished.")
MainFinished ==
  /\ prodMain.pc = "finish"
  /\ prodMain' = [prodMain EXCEPT !.pc = "done"]
  /\ UNCHANGED <<prodQueue, consumer, offered, consumed>>
  /\ ProdFrame

\* consumerProgram: Console.log("--- Starting message poller ---")
ConsumerStart ==
  /\ consumer.pc = "starting"
  /\ consumer' = [consumer EXCEPT !.pc = "take"]
  /\ UNCHANGED <<prodQueue, prodMain, offered, consumed>>
  /\ ProdFrame

\* const rslt = yield* Queue.take(q)
ConsumerTake ==
  /\ consumer.pc = "take"
  /\ LET t == QueueTake(prodQueue, "consumer")
     IN /\ prodQueue' = t.q
        /\ consumer' = IF t.value # None THEN [pc |-> "resumed", value |-> t.value]
                       ELSE [pc |-> "suspended", value |-> None]
  /\ UNCHANGED <<prodMain, offered, consumed>>
  /\ ProdFrame

\* yield* Console.log(`Consumed ${rslt}`)
ConsumerLog ==
  /\ consumer.pc = "resumed"
  /\ consumed' = Append(consumed, consumer.value[1])
  /\ consumer' = [pc |-> "until", value |-> None]
  /\ UNCHANGED <<prodQueue, prodMain, offered>>
  /\ ProdFrame

\* Effect.repeat(..., {until}): repeat, or log "--- Stopping message poller ---"
ConsumerRepeat ==
  /\ consumer.pc = "until"
  /\ consumer' = [consumer EXCEPT !.pc = IF consumerUntil(Len(consumed)) THEN "ended"
                                         ELSE "take"]
  /\ UNCHANGED <<prodQueue, prodMain, offered, consumed>>
  /\ ProdFrame

ProdNext ==
  \/ ForkConsumer
  \/ MainSleep
  \/ producerAction
  \/ ProducerLogged
  \/ ScheduleDelay
  \/ InterruptConsumer
  \/ MainFinished
  \/ ConsumerStart
  \/ ConsumerTake
  \/ ConsumerLog
  \/ ConsumerRepeat

ProdSpec == ProdInit /\ [][ProdNext]_vars

\* The runtime keeps running fibers that can take a step.
ProdFairSpec == ProdSpec /\ WF_vars(ProdNext)

\* ------------------------------------- alpaca/nvidia.ts: quote, clock, order
\* What an awaited client call comes to: the value it resolves with (absent
\* for undefined) or the error object it rejects with.
Resolved(v) == [kind |-> "resolved", value |-> v, error |-> None]
Rejected(e) == [kind |-> "rejected", value |-> None, error |-> Some(e)]

\* Error objects: an Alpaca API error carries an error property, others none
ApiError == [message |-> "Request failed", error |-> Some("forbidden")]
PlainError == [message |-> "Network Error", error |-> None]
TypeError == [message |-> "TypeError: cannot read properties of undefined",
              error |-> None]
ClientErrors == {ApiError, PlainError}

QuoteOutcomes ==
  {Resolved(Some([bidprice |-> 100, askprice |-> 102])), Resolved(None)}
    \cup {Rejected(e) : e \in ClientErrors}
ClockOutcomes ==
  {Resolved(Some([is_open |-> o, timestamp |-> "t"])) : o \in BOOLEAN}
    \cup {Resolved(None)} \cup {Rejected(e) : e \in ClientErrors}
OrderOutcomes ==
  {Resolved(Some([id |-> "order-1"]))} \cup {Rejected(e) : e \in ClientErrors}

\* quantity = 1 by default; the caller passes 2
Quantities == {1, 2}

NvClients ==
  [getLatestQuote : QuoteOutcomes, getClock : ClockOutcomes,
   createOrder : OrderOutcomes]

OnThrow_rethrows(e) == [pc |-> "rejected", error |-> None]

\* try { ... } catch (error): a throw inside the try block goes to the handler
OnThrow(e) == [pc |-> "catch", error |-> Some(e)]

\* await of a call whose result is then read: a rejection throws its error,
\* and reading a property of undefined throws a TypeError
AwaitThrows(answer) ==
  IF answer.kind = "rejected" THEN answer.error
  ELSE IF answer.value = None THEN Some(TypeError)
  ELSE None

NvInit ==
  /\ nvPc = "quote"
  /\ nvClient \in NvClients
  /\ nvQuantity \in Quantities
  /\ nvQuote = None
  /\ nvClock = None
  /\ nvWarned = FALSE
  /\ nvOrders = <<>>
  /\ nvError = None
  /\ SeqUnused /\ TradeUnused /\ AgentUnused /\ ForkUnused /\ ProdUnused
  /\ LayerUnused

NvFrame ==
  UNCHANGED <<nvClient, nvQuantity, coreVars, forkVars, prodVars, layerVars>>

\* const quote = await client.getLatestQuote(symbol), and the three prices
nvGetLatestQuote ==
  /\ nvPc = "quote"
  /\ LET out == nvClient.getLatestQuote
         t == AwaitThrows(out)
     IN IF t # None
        THEN /\ nvPc' = OnThrow(t[1]).pc
             /\ nvError' = OnThrow(t[1]).error
             /\ UNCHANGED nvQuote
        ELSE /\ nvPc' = "clock"
             /\ nvQuote' = out.value
             /\ UNCHANGED nvError
  /\ UNCHANGED <<nvClock, nvWarned, nvOrders>>
  /\ NvFrame

\* const clock = await client.getClock(); if (!clock.is_open) warn else log
nvGetClock ==
  /\ nvPc = "clock"
  /\ LET out == nvClient.getClock
         t == AwaitThrows(out)
     IN IF t # None
        THEN /\ nvPc' = OnThrow(t[1]).pc
             /\ nvError' = OnThrow(t[1]).error
             /\ UNCHANGED <<nvClock, nvWarned>>
        ELSE /\ nvPc' = "order"
             /\ nvClock' = out.value
             /\ nvWarned' = ~out.value[1].is_open
             /\ UNCHANGED nvError
  /\ UNCHANGED <<nvQuote, nvOrders>>
  /\ NvFrame

\* const order = await client.createOrder({...}); the order is only printed
nvCreateOrder ==
  /\ nvPc = "order"
  /\ nvOrders' = Append(nvOrders, [symbol |-> "NVDA", qty |-> nvQuantity,
                                   side |-> "buy", type |-> "market",
                                   time_in_force |-> "day"])
  /\ LET out == nvClient.createOrder
     IN IF out.kind = "rejected"
        THEN /\ nvPc' = OnThrow(out.error[1]).pc
             /\ nvError' = OnThrow(out.error[1]).error
        ELSE /\ nvPc' = "resolved"
             /\ UNCHANGED nvError
  /\ UNCHANGED <<nvQuote, nvClock, nvWarned>>
  /\ NvFrame

\* catch (error): console.error, and error.error too when it is there
nvCatch ==
  /\ nvPc = "catch"
  /\ nvPc' = "resolved"
  /\ UNCHANGED <<nvQuote, nvClock, nvWarned, nvOrders, nvError>>
  /\ NvFrame

\* the caller: .then(() => console.log("NVIDIA purchase process completed."))
\* for a resolved promise, .catch((error) => console.error(...)) for a
\* rejected one
nvCaller ==
  /\ nvPc \in {"resolved", "rejected"}
  /\ nvPc' = IF nvPc = "resolved" THEN "completed" ELSE "failed"
  /\ UNCHANGED <<nvQuote, nvClock, nvWarned, nvOrders, nvError>>
  /\ NvFrame

NvNext ==
  \/ nvGetLatestQuote
  \/ nvGetClock
  \/ nvCreateOrder
  \/ nvCatch
  \/ nvCaller

NvSpec == NvInit /\ [][NvNext]_vars

\* ------------------------------- lab/layer-launch.ts and the server layer
LayerPrograms == {"database", "server"}
EnvKeys == {"CONNECTION_STRING", "HOST"}
\* a variable of the environment is missing or holds a text, possibly empty
EnvValues == {None, Some(""), Some("postgres://db"), Some("8080")}
Environments == [EnvKeys -> EnvValues]

\* The variable the first layer of each program reads
ConfigKey(program) == IF program = "database" THEN "CONNECTION_STRING" ELSE "HOST"

\* The layers of each program: the first one and the one built in its place
PrimaryLayer(program) ==
  IF program = "database" THEN "postgresDatabaseLayer" ELSE "server"
FallbackLayer(program) ==
  IF program = "database" THEN "inMemoryDatabaseLayer" ELSE "server.catchAll"

MissingData(key) == [tag |-> "MissingData", path |-> key]

\* Config.string(key) under the default provider: the text of the variable,
\* empty or not, or a MissingData error when the variable is not there
ConfigString(environment, key) ==
  IF environment[key] = None
  THEN [ok |-> FALSE, value |-> "", error |-> Some(MissingData(key))]
  ELSE [ok |-> TRUE, value |-> environment[key][1], error |-> None]

\* The lines the first layer prints once it has its value
PrimaryLines(program, value) ==
  IF program = "database"
  THEN << <<"Connecting to database with: ", value>> >>
  ELSE << <<"Listening on http://localhost:", value>> >>

\* The lines the layer built in its place prints
FallbackLines(program, error) ==
  IF program = "database"
  THEN << <<"Connecting to in-memory database">> >>
  ELSE << <<"Recovering from error:", error.tag, error.path>>,
          <<"Listening on http://localhost:3000">> >>

orElse_propagates(program, error) ==
  [pc |-> "failed", built |-> <<>>, lines |-> <<>>]

\* Layer.orElse(() => inMemoryDatabaseLayer) and Layer.catchAll((configError)
\* => ...): a failed construction is replaced by the construction of the
\* other layer
orElse(program, error) ==
  [pc |-> "built", built |-> <<FallbackLayer(program)>>,
   lines |-> FallbackLines(program, error)]

LayerInit ==
  /\ layerProgram \in LayerPrograms
  /\ processEnv \in Environments
  /\ layerPc = "launch"
  /\ built = <<>>
  /\ layerLog = <<>>
  /\ layerError = None
  /\ SeqUnused /\ TradeUnused /\ AgentUnused /\ ForkUnused /\ ProdUnused
  /\ NvUnused

LayerFrame ==
  UNCHANGED <<layerProgram, processEnv, coreVars, forkVars, prodVars, nvVars>>

\* Effect.runFork(Layer.launch(...)): the construction of the layer begins
LayerLaunch ==
  /\ layerPc = "launch"
  /\ layerPc' = "primary"
  /\ UNCHANGED <<built, layerLog, layerError>>
  /\ LayerFrame

\* The first layer: Config.string, then the console line
BuildPrimary ==
  /\ layerPc = "primary"
  /\ LET c == ConfigString(processEnv, ConfigKey(layerProgram))
     IN IF c.ok
        THEN /\ layerPc' = "built"
             /\ built' = Append(built, PrimaryLayer(layerProgram))
             /\ layerLog' = layerLog \o PrimaryLines(layerProgram, c.value)
             /\ UNCHANGED layerError
        ELSE /\ layerPc' = "recover"
             /\ layerError' = c.error
             /\ UNCHANGED <<built, layerLog>>
  /\ LayerFrame

\* The construction failed: Layer.orElse / Layer.catchAll take over
BuildFallback ==
  /\ layerPc = "recover"
  /\ LET r == orElse(layerProgram, layerError[1])
     IN /\ layerPc' = r.pc
        /\ built' = built \o r.built
        /\ layerLog' = layerLog \o r.lines
  /\ UNCHANGED layerError
  /\ LayerFrame

\* Layer.launch keeps the built layer alive; it does not end by itself
LayerRunning ==
  /\ layerPc = "built"
  /\ layerPc' = "running"
  /\ UNCHANGED <<built, layerLog, layerError>>
  /\ LayerFrame

LayerNext ==
  \/ LayerLaunch
  \/ BuildPrimary
  \/ BuildFallback
  \/ LayerRunning

LayerSpec == LayerInit /\ [][LayerNext]_vars

\* ------------------------------------------------- two concurrent runs
RunIds == {1, 2}
PairPrompt(r) ==
  IF r = 1 THEN <<"Add 5 and 3">>
  ELSE <<"Write a TypeScript function that calculates the factorial of 5.">>
PairOutcomes ==
  [kind : {"reply"}, text : {<<Prose>>, <<FenceTs, ExampleCode, Fence>>}]
  \cup [kind : {"failed"}, text : {<<"ECONNRESET">>}]
PairBehaviours ==
  {b \in VmBehaviours :
     \/ b.kind = "returns" /\ b.value = "8" /\ b.reads = ""
     \/ b.kind = "loops" /\ b.at = "top"}

\* default: () => [] and default: () => undefined, evaluated for each invoke
DefaultChannels == [messages |-> <<>>, generatedCode |-> None, evaluationResult |-> None]

channelsOf_shared(r) == 1

\* Each app.invoke works on channel instances of its own
channelsOf(r) == r

IdleRun == [pc |-> "idle", llm |-> None, behaviour |-> None]

PairInit ==
  /\ variant \in Variants
  /\ runs = [r \in RunIds |-> IdleRun]
  /\ channels = [c \in RunIds |-> DefaultChannels]
  /\ LabUnused
  /\ pc = "idle"
  /\ outcome = "running"
  /\ input = <<>>
  /\ messages = <<>>
  /\ generatedCode = None
  /\ evaluationResult = None
  /\ llmResult = None
  /\ vm = NoVm
  /\ vmCreated = 0
  /\ visited = <<>>
  /\ request = None
  /\ calls = 0

PairIdle ==
  UNCHANGED <<variant, pc, outcome, input, messages, generatedCode, evaluationResult,
              llmResult, vm, vmCreated, visited, request, calls, labVars>>

\* The script's run as one step: it ends by itself or at the timeout
SandboxOutcome(b) == TryRun(wrappedCode(b), wrappedCode(b).kind = "loops")

\* app.invoke({messages: [new HumanMessage(prompt)]}) up to the model call
PairInvoke(r) ==
  /\ runs[r].pc = "idle"
  /\ channels' = [channels EXCEPT ![channelsOf(r)] =
                    Merge(@, Update(Some(<<HumanMessage(PairPrompt(r))>>), None, None))]
  /\ runs' = [runs EXCEPT ![r].pc = "Generating"]
  /\ PairIdle

\* the model call of run r ends with o; generate_code finishes
PairGenerate(r, o) ==
  /\ runs[r].pc = "Generating"
  /\ LET st == channels[channelsOf(r)]
     IN IF o.kind = "reply"
        THEN /\ channels' = [channels EXCEPT ![channelsOf(r)] =
                               Merge(st, generateCodeNode(st, o.text))]
             /\ runs' = [runs EXCEPT ![r].pc = "Evaluating", ![r].llm = Some(o)]
        ELSE IF variant = "plain"
        THEN /\ channels' = channels
             /\ runs' = [runs EXCEPT ![r].pc = "raised", ![r].llm = Some(o)]
        ELSE /\ channels' = [channels EXCEPT ![channelsOf(r)] =
                               Merge(st, generateCodeNodeEffectWrapper(st, o.text))]
             /\ runs' = [runs EXCEPT ![r].pc = "Evaluating", ![r].llm = Some(o)]
  /\ PairIdle

\* evaluate_code of run r, the script behaving as b when there is code
PairEvaluate(r, b) ==
  /\ runs[r].pc = "Evaluating"
  /\ LET st == channels[channelsOf(r)]
         result == IF variant = "plain" THEN plainResult(SandboxOutcome(b))
                   ELSE effectResult(SandboxOutcome(b))
     IN IF Falsy(st.generatedCode)
        THEN /\ channels' = [channels EXCEPT ![channelsOf(r)] =
                               Merge(st, evaluateCodeNodeNoCode(st))]
             /\ runs' = [runs EXCEPT ![r].pc = "DONE"]
        ELSE /\ channels' = [channels EXCEPT ![channelsOf(r)] =
                               Merge(st, evaluateCodeNode(st, result))]
             /\ runs' = [runs EXCEPT ![r].pc = "DONE", ![r].behaviour = Some(b)]
  /\ PairIdle

PairNext ==
  \/ \E r \in RunIds : PairInvoke(r)
  \/ \E r \in RunIds, o \in PairOutcomes : PairGenerate(r, o)
  \/ \E r \in RunIds, b \in PairBehaviours : PairEvaluate(r, b)

PairSpec == PairInit /\ [][PairNext]_vars

\* ---------------------------------------------------------------- claims
IsPrefix(s, t) == Len(s) <= Len(t) /\ SubSeq(t, 1, Len(s)) = s
Count(m, s) == Cardinality({i \in 1..Len(s) : s[i] = m})
StageOrder == <<"START", "Generating", "Evaluating", "DONE">>
RunEnded == outcome \in {"returned", "raised"}
CallFailed == llmResult # None /\ llmResult[1].kind = "failed"
\* the reply holds no opening marker that is followed by a closing one
NoFencedBlock(reply) ==
  ~ \E i, j \in 1..Len(reply) : i < j /\ reply[i] = FenceTs /\ reply[j] \in {Fence, FenceTs}
RepliedWithoutBlock ==
  llmResult # None /\ llmResult[1].kind = "reply" /\ NoFencedBlock(llmResult[1].text)
IsFailureString(r) == r # <<>> /\ Head(r) = FailurePrefix
StatesGenerationFailed(m) ==
  /\ m.role = "ai"
  /\ \/ m.content = NoCodeText
     \/ Head(m.content) = Head(InternalGenerationError(<<>>))

\* C1: whatever the model call and the sandbox do, a run never raises past
\* its outer boundary, and the state it returns has more messages than the
\* input state.
C1_NeverRaises ==
  /\ outcome # "raised"
  /\ outcome = "returned" => Len(messages) > Len(input)

\* C2: when the model call itself fails, the generation stage recovers: a
\* generation-failed assistant message is on the transcript, generatedCode is
\* unset, and the run has moved on to evaluation (or is done).
C2_CallFailureRecovered ==
  CallFailed =>
    /\ outcome # "raised"
    /\ pc \in {"Evaluating", "DONE"}
    /\ generatedCode = None
    /\ \E i \in 1..Len(messages) : StatesGenerationFailed(messages[i])

\* C3: when the model replied without an extractable fenced block, the
\* generation stage appended the generation-failed assistant message,
\* generatedCode is unset, the run went on to evaluation, and evaluation takes
\* the missing-code path: no sandbox, evaluationResult unset.
C3_NoBlockTakesMissingCodePath ==
  RepliedWithoutBlock =>
    /\ outcome # "raised"
    /\ pc \in {"Evaluating", "DONE"}
    /\ generatedCode = None
    /\ pc = "Evaluating" => Last(messages) = AIMessage(NoCodeText)
    /\ Count(AIMessage(NoCodeText), messages) >= 1
    /\ vmCreated = 0 /\ vm = NoVm
    /\ evaluationResult = None
    /\ pc = "DONE" => Last(messages) = AIMessage(NothingToEvaluateText)

C3_Witness ==
  /\ RepliedWithoutBlock
  /\ pc = "DONE"
  /\ Last(messages) = AIMessage(NothingToEvaluateText)

\* C4: every run visits START, Generating, Evaluating, DONE in that order,
\* each stage exactly once: the stages visited so far are always a prefix of
\* that order, and a run that has ended has visited all four.
C4_FixedStageOrder ==
  /\ IsPrefix(visited, StageOrder)
  /\ RunEnded => visited = StageOrder

\* C5: every run that has started eventually reaches DONE, given that the
\* model call eventually resolves or rejects.
C5_EventuallyDone == (pc = "START") ~> (pc = "DONE")

\* C6: when the generated code never terminates, the evaluation stage still
\* completes: the sandbox attempt is aborted at its timeout and
\* evaluationResult is set to a failure string; and such code never ends on
\* the success path.
C6_LoopEndsInFailure ==
  /\ (vm.state = "running" /\ vm.behaviour.kind = "loops")
       ~> (pc = "DONE" /\ vm.state = "discarded" /\ evaluationResult # None
           /\ IsFailureString(evaluationResult[1]))
  /\ [](vm.behaviour.kind = "loops" /\ evaluationResult # None
          => IsFailureString(evaluationResult[1]))

C6_Witness ==
  /\ pc = "DONE"
  /\ vm.behaviour.kind = "loops"
  /\ vm.elapsed >= VMTimeoutMs
  /\ evaluationResult # None /\ IsFailureString(evaluationResult[1])

\* C7: across every step the transcript before is a prefix of the transcript
\* after: messages never shrinks and no earlier entry moves or changes.
C7_MessagesOnlyGrow == [][IsPrefix(messages, messages')]_vars

C7_Witness ==
  /\ pc = "DONE"
  /\ Len(messages) > Len(input)
  /\ IsPrefix(input, messages)

\* C8: each stage transition extends the transcript by exactly one new
\* assistant message, so a run from a one-message seed ends with three
\* messages and the seed appears once.
C8_OneMessagePerStage ==
  /\ [][(pc \in {"Generating", "Evaluating"} /\ pc' # pc)
          => /\ Len(messages') = Len(messages) + 1
             /\ IsPrefix(messages, messages')
             /\ Last(messages').role = "ai"]_vars
  /\ [](pc = "DONE" => Len(messages) = 3 /\ Count(input[1], messages) = 1)

\* C9: generatedCode changes only in a step of the generation stage and
\* evaluationResult only in a step of the evaluation stage; the generation
\* stage leaves evaluationResult alone and the evaluation stage leaves
\* generatedCode alone.
C9_FieldOwnership ==
  [][/\ generatedCode' # generatedCode => pc = "Generating"
     /\ evaluationResult' # evaluationResult => pc = "Evaluating"
     /\ pc = "Generating" => evaluationResult' = evaluationResult
     /\ pc = "Evaluating" => generatedCode' = generatedCode]_vars

C9_Witness ==
  /\ pc = "DONE"
  /\ generatedCode # None
  /\ evaluationResult # None

\* C10: an evaluation stage that finds generatedCode absent ends the run in
\* one step: the transcript is extended and now ends with the single new
\* nothing-was-generated assistant message, evaluationResult stays unset, no
\* sandbox is created, and the run returns.
C10_MissingCodePath ==
  [][(pc = "Evaluating" /\ generatedCode = None)
       => /\ IsPrefix(messages, messages')
          /\ Last(messages') = AIMessage(NothingToEvaluateText)
          /\ Count(AIMessage(NothingToEvaluateText), messages')
               = Count(AIMessage(NothingToEvaluateText), messages) + 1
          /\ evaluationResult = None /\ evaluationResult' = None
          /\ vm' = NoVm /\ vmCreated' = 0
          /\ pc' = "DONE" /\ outcome' = "returned"]_vars

C10_Witness ==
  /\ pc = "DONE" /\ outcome = "returned"
  /\ generatedCode = None
  /\ CallFailed
  /\ Last(messages) = AIMessage(NothingToEvaluateText)
  /\ vmCreated = 0

\* ------------------------------------------------- claims C11 .. C20
Fences == {Fence, FenceTs}
\* what the sandbox attempt of the finished evaluation did
SandboxRan == vm.state = "discarded"
SandboxTimedOut == SandboxRan /\ vm.elapsed >= VMTimeoutMs
SandboxThrew ==
  SandboxRan /\ vm.elapsed < VMTimeoutMs /\ wrappedCode(vm.behaviour).kind = "throws"
SandboxReturned ==
  SandboxRan /\ vm.elapsed < VMTimeoutMs /\ wrappedCode(vm.behaviour).kind = "returns"
SandboxFault ==
  SandboxTimedOut \/ SandboxThrew \/ (SandboxReturned /\ vm.behaviour.value = "10n")
FaultMessage ==
  IF SandboxTimedOut THEN TimeoutError
  ELSE IF SandboxThrew THEN wrappedCode(vm.behaviour).error
  ELSE StringifyError
Display(v) == IF v = "hi" THEN <<"<quote>", "hi", "<quote>">> ELSE <<v>>
ResultShown(r) ==
  /\ evaluationResult = Some(r)
  /\ Last(messages) = AIMessage(<<"Code Evaluation Result:">> \o r)

\* C11: when the sandbox fails (timeout, exception, serialization error),
\* evaluationResult is exactly the failure prefix, once, followed by the
\* fault's message, and the appended assistant message carries that string,
\* in both variants.
C11_FailurePrefixOnce ==
  SandboxFault => ResultShown(<<FailurePrefix>> \o FaultMessage)

\* C12 as stated: whenever the sandbox returns a value, evaluationResult is
\* the success prefix followed by the display of that value, and the appended
\* assistant message carries that string.
C12_ValueGivesSuccessString ==
  SandboxReturned => ResultShown(<<SuccessPrefix>> \o Display(vm.behaviour.value))

\* C12 amended: whenever the sandbox returns a value that JSON.stringify can
\* serialize, evaluationResult is the success prefix followed by the display
\* of that value and the appended assistant message carries that string; a
\* returned value that cannot be serialized ends in a failure string.
C12_SerializableValueGivesSuccessString ==
  /\ (SandboxReturned /\ vm.behaviour.value # "10n")
       => ResultShown(<<SuccessPrefix>> \o Display(vm.behaviour.value))
  /\ (SandboxReturned /\ vm.behaviour.value = "10n")
       => evaluationResult # None /\ IsFailureString(evaluationResult[1])

C12_Witness ==
  /\ pc = "DONE"
  /\ SandboxReturned
  /\ vm.behaviour.value = "hi"
  /\ evaluationResult = Some(<<SuccessPrefix, "<quote>", "hi", "<quote>">>)

\* C13: for generated code that defines a valid zero-argument execute reading
\* nothing from its environment, evaluation ends on the success path with the
\* value execute() returns (8 for the example).
C13_ValidExecuteSucceeds ==
  (/\ SandboxRan /\ vm.elapsed < VMTimeoutMs
   /\ vm.behaviour.kind = "returns" /\ vm.behaviour.reads = ""
   /\ vm.behaviour.value # "10n")
    => evaluationResult = Some(<<SuccessPrefix>> \o Display(vm.behaviour.value))

IsFirstBlockTrimmed(c, reply) ==
  \E i, j \in 1..Len(reply) :
    /\ i < j
    /\ reply[i] = FenceTs /\ \A k \in 1..(i - 1) : reply[k] # FenceTs
    /\ reply[j] \in Fences /\ \A k \in (i + 1)..(j - 1) : reply[k] \notin Fences
    /\ \E a, z \in (i + 1)..(j - 1) :
         /\ a <= z /\ c = SubSeq(reply, a, z)
         /\ reply[a] # Ws /\ reply[z] # Ws
         /\ \A k \in ((i + 1)..(a - 1)) \cup ((z + 1)..(j - 1)) : reply[k] = Ws

\* C15: a generation step whose reply holds a fenced block with content sets
\* generatedCode to exactly the trimmed content of the first block and ends
\* the transcript with one new assistant message that contains that code;
\* and generatedCode is set by no other generation step.
C15_ExtractedCodeStored ==
  [][(pc = "Generating" /\ pc' = "Evaluating" /\ llmResult'[1].kind = "reply")
       => LET reply == llmResult'[1].text
          IN /\ \A c \in SeqsUpTo(ReplyAlphabet, Len(reply)) :
                  IsFirstBlockTrimmed(c, reply)
                    => /\ generatedCode' = Some(c)
                       /\ Last(messages') = AIMessage(GeneratedText(c))
                       /\ Count(AIMessage(GeneratedText(c)), messages')
                            = Count(AIMessage(GeneratedText(c)), messages) + 1
             /\ generatedCode' # None => IsFirstBlockTrimmed(generatedCode'[1], reply)]_vars

C15_Witness ==
  /\ pc = "Evaluating"
  /\ llmResult = Some([kind |-> "reply", text |-> <<FenceTs, ExampleCode, Ws, Fence>>])
  /\ generatedCode = Some(<<ExampleCode>>)
  /\ Last(messages) = AIMessage(GeneratedText(<<ExampleCode>>))

C19_FinalMessageShowsResult ==
  (pc = "DONE" /\ generatedCode # None) =>
    /\ evaluationResult # None /\ evaluationResult[1] # <<>>
    /\ Last(messages) = AIMessage(<<"Code Evaluation Result:">> \o evaluationResult[1])
    /\ (/\ vm.behaviour.kind = "returns" /\ vm.behaviour.value = "8"
        /\ vm.behaviour.reads = "" /\ vm.elapsed < VMTimeoutMs)
         => \E i \in 1..Len(Last(messages).content) : Last(messages).content[i] = "8"

\* C16: when the generation stage has built its prompt, the request in it is
\* the content of the last message if that is a human message and the literal
\* "No user request provided" if the transcript is empty or ends with another
\* kind of message; and the stage has not failed while building it.
C16_DefaultRequest ==
  (pc = "Generating" /\ llmResult = None) =>
    /\ outcome = "running"
    /\ request = Some(IF messages # <<>> /\ messages[Len(messages)].role = "human"
                      THEN messages[Len(messages)].content
                      ELSE <<"No user request provided">>)

\* The final channels of a run executed alone from its seed, given the model
\* outcome it got and the behaviour of its script.
SeedAlone(r) ==
  [messages |-> <<HumanMessage(PairPrompt(r))>>, generatedCode |-> None,
   evaluationResult |-> None]
GeneratedAlone(r, o) ==
  LET s0 == SeedAlone(r)
  IN IF o.kind = "reply" THEN Merge(s0, generateCodeNode(s0, o.text))
     ELSE Merge(s0, generateCodeNodeEffectWrapper(s0, o.text))
EvaluatedAlone(r, o, b) ==
  LET s1 == GeneratedAlone(r, o)
  IN IF s1.generatedCode = None THEN Merge(s1, evaluateCodeNodeNoCode(s1))
     ELSE Merge(s1, evaluateCodeNode(s1,
                      IF variant = "plain" THEN plainResult(SandboxOutcome(b[1]))
                      ELSE effectResult(SandboxOutcome(b[1]))))

\* C17: whatever the interleaving of two runs, each run's state is the state
\* it has at that point when executed alone with the same model outcome and
\* sandbox behaviour, and the channels of the two runs are distinct.
C17_RunsIndependent ==
  \A r \in RunIds :
    LET st == channels[r]
    IN /\ runs[r].pc = "idle" => st = DefaultChannels
       /\ runs[r].pc = "Generating" => st = SeedAlone(r)
       /\ runs[r].pc = "raised" => st = SeedAlone(r)
       /\ runs[r].pc = "Evaluating" => st = GeneratedAlone(r, runs[r].llm[1])
       /\ runs[r].pc = "DONE" => st = EvaluatedAlone(r, runs[r].llm[1], runs[r].behaviour)

C17_Witness ==
  /\ runs[1].pc = "DONE" /\ runs[2].pc = "DONE"
  /\ channels[1].generatedCode # None
  /\ channels[2].generatedCode = None
  /\ channels[1].messages[1] # channels[2].messages[1]

\* C20: every evaluation of a state without generatedCode takes the
\* missing-code path, ends the transcript with the same nothing-was-generated
\* text and leaves generatedCode and evaluationResult unset; in particular
\* after two such evaluations in succession both appended messages are that
\* text.
TwoEvaluationsInSuccession ==
  /\ Len(visited) >= 4
  /\ SubSeq(visited, Len(visited) - 3, Len(visited))
       = <<"Evaluating", "DONE", "Evaluating", "DONE">>
C20_MissingCodePathRepeats ==
  /\ [][(pc = "Evaluating" /\ generatedCode = None)
          => /\ Last(messages') = AIMessage(NothingToEvaluateText)
             /\ generatedCode' = None
             /\ evaluationResult = None /\ evaluationResult' = None
             /\ vm' = NoVm /\ vmCreated' = vmCreated
             /\ pc' = "DONE"]_vars
  /\ [](TwoEvaluationsInSuccession /\ generatedCode = None
          => /\ Last(messages) = AIMessage(NothingToEvaluateText)
             /\ messages[(Len(messages) - 1) \div 2] = AIMessage(NothingToEvaluateText)
             /\ evaluationResult = None)

C20_Witness ==
  /\ TwoEvaluationsInSuccession
  /\ generatedCode = None /\ evaluationResult = None
  /\ Last(messages) = AIMessage(NothingToEvaluateText)
  /\ vmCreated = 0

\* ------------------------------------------------- claims C21 .. C30
\* evaluationResult is one outcome string of the sandbox attempt that has
\* just ended: the success prefix and the display of the returned value, or
\* failure prefixes followed by the message of the fault, and nothing else;
\* and the last message shows it.
HoldsOutcomeOfAttempt ==
  /\ evaluationResult # None
  /\ \/ /\ SandboxReturned /\ ~SandboxFault
        /\ evaluationResult[1] = <<SuccessPrefix>> \o Display(vm.behaviour.value)
     \/ /\ SandboxFault
        /\ \E n \in 1..2 :
             evaluationResult[1] = [i \in 1..n |-> FailurePrefix] \o FaultMessage
  /\ Last(messages) = AIMessage(EvaluationText(evaluationResult[1]))

\* C21: generatedCode and evaluationResult hold only the most recent value.
\* A generation step that extracts code sets generatedCode to exactly that
\* code whatever it held before, and an evaluation step that ran the sandbox
\* sets evaluationResult to exactly the outcome string of that attempt, the
\* one its new message shows; nothing of the earlier value remains.
C21_FieldsHoldLatestValue ==
  /\ [][(pc = "Generating" /\ pc' = "Evaluating" /\ llmResult'[1].kind = "reply")
          => \A c \in SeqsUpTo(ReplyAlphabet, Len(llmResult'[1].text)) :
               IsFirstBlockTrimmed(c, llmResult'[1].text) => generatedCode' = Some(c)]_vars
  /\ [][(vm.state = "running" /\ pc' = "DONE")
          => HoldsOutcomeOfAttempt' /\ generatedCode' = generatedCode]_vars

\* the code left by an earlier run has been replaced while its result is
\* still on the state
C21_Witness ==
  /\ pc = "Evaluating"
  /\ generatedCode = Some(<<ExampleCode>>)
  /\ evaluationResult = Some(<<SuccessPrefix, "1">>)

\* C22: a fault that reaches the outer edge of the pipeline (here: the model
\* call rejecting) is turned into an error message on the transcript, and
\* the caller receives a state: a run in which the fault happened never ends
\* by raising, and when it has ended an assistant error message is on the
\* transcript it returned.
C22_FaultBecomesMessage ==
  (CallFailed /\ RunEnded) =>
    /\ outcome = "returned"
    /\ \E i \in (Len(input) + 1)..Len(messages) :
         messages[i].role = "ai" /\ messages[i].content # NothingToEvaluateText

\* c is the content of the first fenced block of reply with the whitespace
\* around it removed (possibly nothing): the block runs from the first
\* opening marker to the first marker after it.
IsTrimmedFirstBlock(c, reply) ==
  \E i, j \in 1..Len(reply) :
    /\ i < j
    /\ reply[i] = FenceTs /\ \A k \in 1..(i - 1) : reply[k] # FenceTs
    /\ reply[j] \in Fences /\ \A k \in (i + 1)..(j - 1) : reply[k] \notin Fences
    /\ \E a \in (i + 1)..j, z \in i..(j - 1) :
         /\ a <= z + 1 /\ c = SubSeq(reply, a, z)
         /\ a <= z => reply[a] # Ws /\ reply[z] # Ws
         /\ \A k \in ((i + 1)..(a - 1)) \cup ((z + 1)..(j - 1)) : reply[k] = Ws

\* C23: extraction maps a reply to optional code: absent exactly when the
\* reply holds no fenced block tagged with the language, and otherwise the
\* trimmed content of the first such block, however many blocks follow.
C23_FirstBlockExtracted ==
  pc = "Extracted" =>
    LET reply == llmResult[1].text
    IN /\ generatedCode = None <=> NoFencedBlock(reply)
       /\ generatedCode # None => IsTrimmedFirstBlock(generatedCode[1], reply)

C23_Witness ==
  /\ pc = "Extracted"
  /\ llmResult[1].text = <<FenceTs, ExampleCode, Fence, FenceTs, Prose, Fence>>
  /\ generatedCode = Some(<<ExampleCode>>)

\* C24: Effect.all over the tasks runs them one after the other: the lines
\* logged are always start task1, task1 done, start task2, task2 done, ...
\* in that order whatever the delays are (task2's 100 ms against task1's
\* 200 ms included), and no task has started while an earlier one is not done.
C24_TasksRunInOrder ==
  /\ \A i \in 1..Len(events) :
       events[i] = IF i % 2 = 1 THEN <<"start task", (i + 1) \div 2>>
                   ELSE <<"task", i \div 2, " done">>
  /\ \A n \in DOMAIN tasks :
       tasks[n].status # "pending" => \A m \in 1..(n - 1) : tasks[m].status = "done"

C24_Witness ==
  /\ Len(tasks) = 2 /\ tasks[1].delay = 200 /\ tasks[2].delay = 100
  /\ events = <<<<"start task", 1>>, <<"task", 1, " done">>,
                <<"start task", 2>>, <<"task", 2, " done">>>>

\* what the run shows of execute_trade having run: the node always appends a
\* tool message or its internal-error message
TradeNodeRan ==
  \E i \in 1..Len(tradeMessages) :
    tradeMessages[i].role = "tool" \/ tradeMessages[i] = AIMessage(NoBuyText)
Recommends(r) == analysisResult # None /\ analysisResult[1].recommendation = r

\* C25: execute_trade runs, and an order is placed, only when the analysis
\* produced an analysisResult that recommends BUY; with HOLD, SELL or no
\* analysisResult the workflow ends right after analyze_and_decide with no
\* order, no trade outcome and no trace of execute_trade; and a run places at
\* most one order.
C25_TradeOnlyOnBuy ==
  /\ (tradePc = "execute_trade" \/ TradeNodeRan \/ orders # <<>>) => Recommends("BUY")
  /\ (analysisCall # None /\ ~Recommends("BUY"))
       => /\ tradePc = "END"
          /\ orders = <<>> /\ ~TradeNodeRan
          /\ tradeExecuted = None /\ alpacaError = None
  /\ Len(orders) <= 1
  /\ tradeExecuted = Some(TRUE) <=> Len(orders) = 1

C25_Witness ==
  /\ tradePc = "END"
  /\ Recommends("BUY")
  /\ Len(orders) = 1 /\ orders[1].symbol = "TSLA" /\ orders[1].status = "accepted"
  /\ tradeExecuted = Some(TRUE)

\* C30: when the structured model call fails, analyze_and_decide recovers:
\* the run goes to END at once, exactly one assistant message (the error
\* message) has been appended and ends the transcript, analysisResult and
\* stockSymbol are unset, no order is placed and tradeExecuted is never true.
C30_AnalysisFailureRecovered ==
  (analysisCall # None /\ analysisCall[1].kind = "failed") =>
    /\ tradePc = "END"
    /\ Last(tradeMessages) = AIMessage(<<"Error in analysis: ">> \o analysisCall[1].error)
    /\ Cardinality({i \in 1..Len(tradeMessages) : tradeMessages[i].role # "human"}) = 1
    /\ analysisResult = None /\ stockSymbol = None
    /\ orders = <<>>
    /\ tradeExecuted # Some(TRUE)

C30_Witness ==
  /\ tradePc = "END"
  /\ analysisCall = Some([kind |-> "failed", error |-> <<"401 Unauthorized">>])
  /\ Last(tradeMessages) = AIMessage(<<"Error in analysis: ", "401 Unauthorized">>)
  /\ orders = <<>>

\* C26: when the generation step of the current call failed (the model call
\* failed or the reply held no fenced block), the evaluation that follows
\* never runs code: no sandbox is created, whatever generatedCode the input
\* state carried, and the evaluation ends with the nothing-was-generated
\* message.
C26_StaleCodeNotExecuted ==
  (CallFailed \/ RepliedWithoutBlock) =>
    /\ vm = NoVm
    /\ pc = "DONE" => Last(messages) = AIMessage(NothingToEvaluateText)

\* C27: in every terminal state of a run started from a fresh seed,
\* evaluationResult is set if and only if generatedCode is set, and when both
\* are set evaluationResult begins with the success prefix or with the
\* failure prefix.
C27_ResultIffCode ==
  RunEnded =>
    /\ evaluationResult # None <=> generatedCode # None
    /\ (evaluationResult # None /\ generatedCode # None)
         => /\ evaluationResult[1] # <<>>
            /\ Head(evaluationResult[1]) \in {SuccessPrefix, FailurePrefix}

C27_Witness ==
  /\ pc = "DONE" /\ outcome = "returned"
  /\ generatedCode # None
  /\ evaluationResult # None /\ Head(evaluationResult[1]) = FailurePrefix
  /\ SandboxTimedOut

\* C28: generatedCode is never the empty string: it is absent or holds
\* content that neither is empty nor starts or ends with whitespace; a reply
\* whose first fenced block is empty or whitespace only is handled as an
\* extraction failure; and a sandbox exists only for non-empty code.
FirstBlockIsBlank(reply) ==
  \E i, j \in 1..Len(reply) :
    /\ i < j
    /\ reply[i] = FenceTs /\ \A k \in 1..(i - 1) : reply[k] # FenceTs
    /\ reply[j] \in Fences
    /\ \A k \in (i + 1)..(j - 1) : reply[k] = Ws
C28_CodeNeverEmpty ==
  /\ generatedCode # None
       => /\ generatedCode[1] # <<>>
          /\ Head(generatedCode[1]) # Ws /\ Last(generatedCode[1]) # Ws
  /\ vm.state # "none" => generatedCode # None /\ generatedCode[1] # <<>>
  /\ (/\ llmResult # None /\ llmResult[1].kind = "reply"
      /\ FirstBlockIsBlank(llmResult[1].text))
       => /\ generatedCode = None
          /\ vm = NoVm
          /\ Count(AIMessage(NoCodeText), messages) >= 1

C28_Witness ==
  /\ pc = "DONE"
  /\ llmResult = Some([kind |-> "reply", text |-> <<FenceTs, Ws, Ws, Fence>>])
  /\ generatedCode = None
  /\ vmCreated = 0

\* The end of a run of variant v from the seed, given the outcome o of the
\* model call and the outcome r of the sandbox attempt (used when there is
\* code): raised, or the final channels.
EndOfRun(v, seed, o, r) ==
  IF o.kind = "failed" /\ v = "plain" THEN [raised |-> TRUE, state |-> seed]
  ELSE LET s1 == IF o.kind = "failed"
                 THEN Merge(seed, generateCodeNodeEffectWrapper(seed, o.text))
                 ELSE Merge(seed, generateCodeNode(seed, o.text))
           s2 == IF Falsy(s1.generatedCode) THEN Merge(s1, evaluateCodeNodeNoCode(s1))
                 ELSE Merge(s1, evaluateCodeNode(s1, IF v = "plain" THEN plainResult(r)
                                                     ELSE effectResult(r)))
       IN [raised |-> FALSE, state |-> s2]
Seed == [messages |-> input, generatedCode |-> None, evaluationResult |-> None]
AttemptOutcome == TryRun(wrappedCode(vm.behaviour), vm.elapsed >= VMTimeoutMs)
Summary(e) ==
  [raised |-> e.raised, count |-> Len(e.state.messages),
   generatedCode |-> e.state.generatedCode, evaluationResult |-> e.state.evaluationResult]

\* C29: the plain and the Effect-based pipeline are equivalent: when a run
\* has ended, the run of the other variant from the same seed with the same
\* model outcome and the same sandbox outcome ends the same way: both raise,
\* or both return with the same number of messages, the same generatedCode
\* and the same evaluationResult.
C29_VariantsEquivalent ==
  RunEnded =>
    Summary(EndOfRun("plain", Seed, llmResult[1], AttemptOutcome))
      = Summary(EndOfRun("effect", Seed, llmResult[1], AttemptOutcome))

\* ------------------------------------------------- claims C31 .. C36
\* C31: whenever execute_trade has run, the final state records exactly one
\* outcome: tradeExecuted is true and alpacaError is unset (an order was
\* accepted), or tradeExecuted is false and alpacaError holds the failure
\* text; and without paper trading no order is accepted and alpacaError is
\* set.
C31_ExactlyOneTradeOutcome ==
  (tradePc = "END" /\ TradeNodeRan) =>
    /\ \/ tradeExecuted = Some(TRUE) /\ alpacaError = None /\ Len(orders) = 1
       \/ tradeExecuted = Some(FALSE) /\ alpacaError # None /\ orders = <<>>
    /\ ~paperTrading => orders = <<>> /\ alpacaError # None

\* C32: in the fork-take program the forked take never completes before the
\* offer: while it is suspended the queue is empty and the offer is still to
\* come, and when it has completed its value is the offered item; and in
\* every interleaving the program terminates with the offered item as its
\* value.
C32_ForkedTakeGetsOffer ==
  /\ [](/\ forkFiber.pc = "suspended"
             => forkMain.pc = "offer" /\ forkQueue.items = <<>>
        /\ forkFiber.pc \in {"resumed", "done"}
             => forkMain.pc \in {"join", "done"} /\ forkFiber.value = Some(forkItem)
        /\ forkMain.pc = "done" => forkMain.value = Some(forkItem))
  /\ <>(forkMain.pc = "done" /\ forkMain.value = Some(forkItem))

C32_Witness ==
  /\ forkProgram = "fork-take" /\ forkItem = "something" /\ forkQueue.capacity = 100
  /\ forkFiber.waited
  /\ forkMain = [pc |-> "done", value |-> Some("something")]

\* C33: the consumer consumes only messages the producer has offered, each
\* at most once and in the order offered (what it has consumed is always a
\* prefix of what was offered, and no message occurs in it twice); its loop
\* never ends by itself, so the stopping line is never reached, and the
\* consumer is over only once the main fiber has interrupted it.
C33_ConsumerFollowsProducer ==
  /\ IsPrefix(consumed, offered)
  /\ \A i, j \in 1..Len(consumed) : consumed[i] = consumed[j] => i = j
  /\ consumer.pc = "resumed" => consumer.value = Some(offered[Len(consumed) + 1])
  /\ consumer.pc # "ended"
  /\ consumer.pc = "interrupted" => prodMain.pc \in {"finish", "done"}

C33_Witness ==
  /\ consumer.pc = "interrupted"
  /\ Len(consumed) >= 10
  /\ consumed = SubSeq(offered, 1, Len(consumed))

\* C34: the main program ends with the producer action run exactly 11 times
\* and the consumer interrupted, and when it has ended every one of the 11
\* offered messages has been consumed and none is left in the queue.
C34_AllConsumedAtEnd ==
  prodMain.pc = "done" =>
    /\ prodMain.runs = 11 /\ Len(offered) = 11
    /\ consumer.pc = "interrupted"
    /\ consumed = offered
    /\ prodQueue.items = <<>>

\* C35: a call of buyNVIDIAGetQuoteAndOrder hands at most one order to the
\* client, and only when both the quote and the clock were obtained; once
\* both were obtained the order is handed over whether the market is open or
\* closed; and whatever the three client calls answer, the returned promise
\* is resolved, never rejected.
C35_OneOrderNeverRejects ==
  /\ Len(nvOrders) <= 1
  /\ nvOrders # <<>> => nvQuote # None /\ nvClock # None
  /\ (nvQuote # None /\ nvClock # None /\ nvPc \notin {"order"}) =>
        /\ Len(nvOrders) = 1
        /\ nvOrders[1].qty = nvQuantity
  /\ nvPc \notin {"rejected", "failed"}

C35_Witness ==
  /\ nvPc = "completed"
  /\ nvWarned
  /\ Len(nvOrders) = 1
  /\ nvError = Some(ApiError)

\* C36: the in-memory layer (for the server, the layer of Layer.catchAll) is
\* built exactly when the first layer failed to build, which is exactly when
\* its configuration variable is missing; it is never built when the first
\* layer was built; and the launch never fails with the configuration error.
C36_FallbackIffPrimaryFails ==
  LET missing == processEnv[ConfigKey(layerProgram)] = None
      hasPrimary == \E i \in 1..Len(built) : built[i] = PrimaryLayer(layerProgram)
      hasFallback == \E i \in 1..Len(built) : built[i] = FallbackLayer(layerProgram)
  IN layerPc # "unused" =>
       /\ layerPc # "failed"
       /\ ~(hasPrimary /\ hasFallback)
       /\ hasFallback => layerError # None /\ missing
       /\ hasPrimary => layerError = None /\ ~missing
       /\ layerPc \in {"built", "running"} =>
            /\ Len(built) = 1
            /\ hasFallback <=> missing
            /\ layerError # None <=> missing

C36_Witness ==
  /\ layerProgram = "database"
  /\ processEnv["CONNECTION_STRING"] = None
  /\ layerPc = "running"
  /\ built = <<"inMemoryDatabaseLayer">>
  /\ layerLog = << <<"Connecting to in-memory database">> >>

====
